---- MODULE Spec2Model ----
(***************************************************************************)
(* ImageLite Studio: the adaptive re-encoding engine of                    *)
(* services/imageUtils.ts (revision "Version 2.1") and the batch loop of   *)
(* App.processFiles that drives it.                                        *)
(*                                                                         *)
(* Byte sizes are bytes, pixel dimensions are pixels, qualities are in     *)
(* hundredths (0.65 is 65).  A step of the model is one asynchronous       *)
(* completion: the code between two platform callbacks runs atomically.    *)
(***************************************************************************)
EXTENDS Integers, Sequences, FiniteSets, TLC

\* ------------------------------------------------------------------------
\* MIME types and tools
\* ------------------------------------------------------------------------
JPEG == "image/jpeg"
PNG  == "image/png"
WEBP == "image/webp"
AVIF == "image/avif"
GIF  == "image/gif"
SVGXML == "image/svg+xml"

COMPRESS     == "COMPRESS"
CONVERT_WEBP == "CONVERT_WEBP"
CONVERT_AVIF == "CONVERT_AVIF"
BASE64       == "BASE64"
ANIMATION    == "ANIMATION"
DECODE       == "DECODE"
SVG          == "SVG"

ToolType == {COMPRESS, CONVERT_WEBP, CONVERT_AVIF, BASE64, ANIMATION, DECODE, SVG}

\* The tools whose page renders the UploadZone wired to processFiles.
UploadTools == ToolType \ {ANIMATION, DECODE}

\* ------------------------------------------------------------------------
\* Policy constants of smartOptimizedCompress, Version 2.1
\* ------------------------------------------------------------------------
MobileMinDimension == 2000
MobileMaxBytes     == 3 * 1024 * 1024
DefaultStartWidth  == 1920
MobileStartWidth   == 1280
FallbackWidth      == 1024
FallbackQuality    == 70
Pass2Width         == 960
Pass3Width         == 800
Pass2Ceiling       == 150 * 1024
Pass3Ceiling       == 100 * 1024

\* ------------------------------------------------------------------------
\* Bounds of the model
\* ------------------------------------------------------------------------
\* Encoded sizes are sampled within SizeSlack bytes of every size the code
\* compares against.
SizeSlack == 1
\* Longest batch of files submitted at once.
MaxBatch == 2

\* Optimizer calls after which the upload zone is no longer followed.
MaxProbes == 2

Max(a, b) == IF a >= b THEN a ELSE b

\* ------------------------------------------------------------------------
\* Inputs
\* ------------------------------------------------------------------------
\* A File: declared type, byte size, native pixel size.  width = height = 0
\* stands for a file the platform cannot decode.
MkFile(t, s, d) == [type |-> t, size |-> s, width |-> d[1], height |-> d[2]]

FileTypes == {JPEG, PNG, GIF, WEBP}
FileSizes == {8 * 1024, 128 * 1024, 1887437}
FileDims  == {<<400, 300>>, <<4000, 3000>>, <<0, 0>>}

Files == {MkFile(t, s, d) : t \in FileTypes, s \in FileSizes, d \in FileDims}

\* The uploads of the optimizer's specification: one file of any kind.
Uploads == {<<f>> : f \in Files}

\* The uploads of the application's specification: up to MaxBatch files.
BatchFiles == {MkFile(JPEG, 8 * 1024, <<400, 300>>), MkFile(GIF, 8 * 1024, <<0, 0>>)}

Batches == UNION {[1..k -> BatchFiles] : k \in 1..MaxBatch}


\* Encoder capabilities of the platforms considered: PNG only, and each
\* newer format only on top of the older ones.
Platforms == {{}, {JPEG}, {JPEG, WEBP}, {JPEG, WEBP, AVIF}}

NoBlob == [type |-> "", size |-> 0, width |-> 0, height |-> 0, isFile |-> FALSE]
NoFile == MkFile("", 0, <<0, 0>>)
NoSvg == [text |-> "", width |-> 0, height |-> 0, payloadWidth |-> 0, payloadHeight |-> 0]
NoCard == [originalName |-> <<>>, type |-> "", status |-> "", extension |-> ""]

\* DEFAULT_SETTINGS, by the two fields followed here.
DEFAULT_SETTINGS == [language |-> "vi", themeMode |-> "light"]

\* The settings the modal can hold.
SettingsValues == [language : {"vi", "en"}, themeMode : {"light", "dark"}]

\* The constructor state of the settings and of the always-mounted modal.
NewModal ==
  [settings |-> DEFAULT_SETTINGS, isSettingsOpen |-> FALSE, localSettings |-> DEFAULT_SETTINGS]

\* No frames, and AnimationLab's state as useState initialises it.
NewLab == [animationFrames |-> 0, currentIndex |-> 0, isPlaying |-> FALSE]

VARIABLES
  caps,          \* formats (besides PNG) the platform canvas encoder can produce
  apiKey,        \* apiKeyToUse is non-empty
  activeTool,    \* AppState.activeTool
  images,        \* AppState.images
  isProcessing,  \* AppState.isProcessing
  files,         \* processFiles: the files argument
  batchTool,     \* processFiles: state.activeTool as captured by the closure
  i,             \* processFiles: loop index (1-based)
  pc,            \* the asynchronous completion the batch is waiting for
  file,          \* smartOptimizedCompress: file
  targetType,    \* smartOptimizedCompress: targetType
  isMobilePhoto, \* smartOptimizedCompress: isMobilePhoto
  blob,          \* smartOptimizedCompress: blob (current best)
  retryType,     \* smartOptimizedCompress: retryType
  passes,        \* log: the EncodeRequests handed to compressImage in this call
  held,          \* log: blob.size held after Pass 1, Pass 2, Pass 3 of this call
  settled,       \* log: how the adapter call of the current image settled
  resultBlob,    \* processFiles: resultBlob
  base64Str,     \* processFiles: MIME type declared by base64Str ("" when undefined)
  pending,       \* compressImage calls whose promise has not settled
  crashed,       \* the React tree was torn down by an error thrown while rendering
  svg,           \* generateSVGWrapper: the markup it resolved with
  firstRun,      \* log: what the first of two compressSimple runs returned
  proberUrls,    \* object URLs getImageDimensions has created and not revoked
  card,          \* ResultCard: the image prop and the extension of its download name
  lab,           \* AppState.animationFrames (their number) and AnimationLab's own state
  modal          \* AppState.settings, isSettingsOpen and SettingsModal's localSettings

envVars == <<caps, apiKey>>
appVars == <<activeTool, images, isProcessing, crashed>>
batchVars == <<files, batchTool>>
optVars == <<targetType, isMobilePhoto, blob, retryType, passes, held, pending>>
iterVars == <<file, settled, resultBlob, base64Str>>
toolVars == <<svg, firstRun, proberUrls, card, lab, modal>>
vars == <<caps, apiKey, activeTool, images, isProcessing, files, batchTool, i, pc,
          file, targetType, isMobilePhoto, blob, retryType, passes, held,
          settled, resultBlob, base64Str, pending, crashed, svg, firstRun,
          proberUrls, card, lab, modal>>

\* The state with no upload yet and the given tool selected, on any
\* platform, with or without an API key.
Start(tool) ==
  /\ caps \in Platforms
  /\ apiKey \in BOOLEAN
  /\ activeTool = tool
  /\ images = <<>>
  /\ isProcessing = FALSE
  /\ files = <<>>
  /\ batchTool = COMPRESS
  /\ i = 0
  /\ pc = "idle"
  /\ file = NoFile
  /\ targetType = ""
  /\ isMobilePhoto = FALSE
  /\ blob = NoBlob
  /\ retryType = ""
  /\ passes = <<>>
  /\ held = <<>>
  /\ settled = "none"
  /\ resultBlob = NoBlob
  /\ base64Str = ""
  /\ pending = 0
  /\ crashed = FALSE
  /\ svg = NoSvg
  /\ firstRun = NoBlob
  /\ proberUrls = 0
  /\ card = NoCard
  /\ lab = NewLab
  /\ modal = NewModal


\* ------------------------------------------------------------------------
\* Rasterizer/Encoder: compressImage
\* ------------------------------------------------------------------------
\* Math.round on the exact quotient n / d, n >= 0, d > 0: halves go up.
RoundHalfUp(n, d) == (2 * n + d) \div (2 * d)

\* The code rounds short * (MAX_WIDTH / long), each operation in double
\* precision.  Among the sides and widths modelled here the product differs
\* from the exact quotient's rounding for one triple <<short, MAX_WIDTH,
\* long>>: 145 * (800 / 1856) evaluates to 62.49999999999999 where the exact
\* quotient is 62.5.
LowTies == {<<145, 800, 1856>>}

\* Math.round(short * (maxWidth / long)).
Scaled(short, maxWidth, long) ==
  IF <<short, maxWidth, long>> \in LowTies
    THEN RoundHalfUp(short * maxWidth, long) - 1
    ELSE RoundHalfUp(short * maxWidth, long)

\* SmartResize with the two branches exchanged: the longer side is scaled by
\* the shorter one.
SmartResizeSwapped(width, height, maxWidth) ==
  IF maxWidth > 0 /\ (width > maxWidth \/ height > maxWidth)
    THEN IF width > height
           THEN {<<Scaled(width, maxWidth, height), maxWidth>>}
           ELSE {<<maxWidth, Scaled(height, maxWidth, width)>>}
    ELSE {<<width, height>>}

\* The canvas sizes compressImage may render a width x height source to
\* under options.maxWidth (0 when absent).
SmartResize(width, height, maxWidth) ==
  IF maxWidth > 0 /\ (width > maxWidth \/ height > maxWidth)
    THEN IF width > height
           THEN {<<maxWidth, Scaled(height, maxWidth, width)>>}
           ELSE {<<Scaled(width, maxWidth, height), maxWidth>>}
    ELSE {<<width, height>>}

\* Byte sizes an encode of file f may report: for a single upload every
\* size within SizeSlack of a size the optimizer compares against; in a
\* batch of several files one size under the source's, one that ends the
\* escalation and one that drives it through every pass.
BlobSizes(f) ==
  IF Len(files) > 1
    THEN {f.size - 1, Pass3Ceiling, Pass2Ceiling + 1}
    ELSE {t + d : t \in {Pass3Ceiling, Pass2Ceiling, f.size},
                  d \in (0 - SizeSlack)..SizeSlack}

\* The type of the blob the canvas hands back for a requested type: the
\* requested one when the platform can encode it, PNG otherwise.
EncodedType(type) == IF type \in caps \cup {PNG} THEN type ELSE PNG

\* A decodable source has positive pixel dimensions.
Decodable(f) == f.width > 0 /\ f.height > 0

\* The blobs compressImage(f, options) may resolve with.
compressImage(f, options) ==
  {[type |-> EncodedType(options.type), size |-> s,
    width |-> d[1], height |-> d[2], isFile |-> FALSE] :
      s \in BlobSizes(f), d \in SmartResize(f.width, f.height, options.maxWidth)}

\* The File itself, seen as a Blob.
AsBlob(f) ==
  [type |-> f.type, size |-> f.size, width |-> f.width, height |-> f.height,
   isFile |-> TRUE]

Options(q, t, w) == [quality |-> q, type |-> t, maxWidth |-> w]

\* ------------------------------------------------------------------------
\* App.processFiles: the end of the iteration for image i
\* ------------------------------------------------------------------------
\* { ...img, fields }: img with the given fields overwritten.
Spread(img, fields) ==
  [f \in DOMAIN img |-> IF f \in DOMAIN fields THEN fields[f] ELSE img[f]]

\* SetRecord that puts the record back at the head of the list when it is
\* no longer there.
SetRecordUpsert(id, fields) ==
  IF \E k \in DOMAIN images : images[k].id = id
    THEN [k \in DOMAIN images |->
            IF images[k].id = id THEN Spread(images[k], fields) ELSE images[k]]
    ELSE <<Spread([id |-> id, originalSize |-> 0, processedSize |-> 0, type |-> "",
                   status |-> "processing", base64 |-> "",
                   seoData |-> [alt |-> "", desc |-> ""], seoCall |-> ""], fields)>>
         \o images

\* prev.images.map(img => img.id === id ? { ...img, fields } : img)
SetRecord(id, fields) ==
  [k \in DOMAIN images |->
     IF images[k].id = id THEN Spread(images[k], fields) ELSE images[k]]

MarkError == [status |-> "error"]

\* The iteration is over: its block-scoped values are gone.
EndIteration ==
  /\ i' = i + 1
  /\ pc' = "loop"
  /\ file' = NoFile
  /\ settled' = "none"
  /\ resultBlob' = NoBlob
  /\ base64Str' = ""

\* catch (error): only the record of image i is marked, the loop goes on.
Catch ==
  /\ images' = (IF crashed THEN images ELSE SetRecord(i, MarkError))
  /\ UNCHANGED crashed
  /\ EndIteration

\* What the metadata request of generateSeoMetadata can come to:
\*   "object"    the response text parses to an {alt, desc} object
\*   "rejects"   generateContent rejects (network failure, refused key)
\*   "notext"    the response has no text
\*   "malformed" the response text is not JSON
\*   "other"     the text parses to a JSON value other than null that has
\*               no alt and no desc
\*   "null"      the text parses to null
SeoCalls == {"object", "rejects", "notext", "malformed", "other", "null"}

Null == [null |-> TRUE]

\* The catch branch of generateSeoMetadata: the local fallback.
LocalFallback ==
  [alt |-> "humanized", desc |-> "Optimization complete (AI features unavailable)."]

\* The value generateSeoMetadata resolves with (it never rejects).  Texts
\* are named, not spelled: "humanized" is the file name up to its first dot
\* with '-' replaced by spaces, "undefined" a missing property.
generateSeoMetadata(call) ==
  CASE call = "object" -> [alt |-> "ai alt", desc |-> "ai desc"]
    [] call = "notext" -> [alt |-> "filename", desc |-> "No description generated."]
    [] call \in {"rejects", "malformed"} -> LocalFallback
    [] call = "other" -> [alt |-> "undefined", desc |-> "undefined"]
    [] OTHER -> Null

\* let seoData = { alt: '', desc: '' } when no metadata call is made.
NoSeoData == [alt |-> "", desc |-> ""]

\* The seoData the success update stores.
StoredSeo(seoData) ==
  [alt |-> IF seoData.alt \in {"", "undefined"}
             THEN (IF apiKey THEN "" ELSE "API Key Required for AI")
             ELSE seoData.alt,
   desc |-> seoData.desc]

\* The success update of image i; call logs what the metadata request came
\* to ("nokey" when none was made).  The updater reads seoData.alt when
\* React renders, and only for a record it finds: on a null seoData the
\* render throws and, with no error boundary, the tree is torn down; state
\* updates after that are dropped.
Commit(rb, b64, seoData, call) ==
  /\ IF crashed
       THEN UNCHANGED <<images, crashed>>
       ELSE IF seoData = Null /\ \E k \in DOMAIN images : images[k].id = i
              THEN crashed' = TRUE /\ UNCHANGED images
              ELSE /\ images' = SetRecord(i,
                         [processedSize |-> rb.size, status |-> "done",
                          type |-> rb.type, base64 |-> b64,
                          seoData |-> IF seoData = Null THEN NoSeoData
                                                        ELSE StoredSeo(seoData),
                          seoCall |-> call])
                   /\ UNCHANGED crashed
  /\ EndIteration

\* After the switch: the metadata call is awaited only with an API key.
AfterSwitch(f, rb, b64) ==
  IF apiKey
    THEN /\ pc' = "seo"
         /\ file' = f
         /\ resultBlob' = rb
         /\ base64Str' = b64
         /\ UNCHANGED <<images, i, settled, crashed>>
    ELSE Commit(rb, b64, NoSeoData, "nokey")

\* ------------------------------------------------------------------------
\* Smart Optimizer: smartOptimizedCompress (Version 2.1) and its adapters
\* ------------------------------------------------------------------------
\* The target format each adapter fixes.
AdapterTarget(tool, f) ==
  CASE tool = CONVERT_WEBP -> WEBP
    [] tool = CONVERT_AVIF -> AVIF
    [] OTHER -> f.type

\* isMobilePhoto classified by the payload size alone.
IsMobilePhotoBySize(f) == f.size < MobileMaxBytes

\* isMobilePhoto with both thresholds inclusive.
IsMobilePhotoInclusive(f) ==
  Max(f.width, f.height) >= MobileMinDimension /\ f.size <= MobileMaxBytes

\* DETECT MOBILE PHOTO: high resolution and low size.  An undecodable
\* source is probed as 0 x 0.
IsMobilePhoto(f) ==
  LET maxDimension == Max(f.width, f.height)
  IN  maxDimension > MobileMinDimension /\ f.size < MobileMaxBytes

\* FinalDecision without the size guard: the best encode, always.
FinalDecisionAlwaysBlob(b) == b

\* FINAL DECISION LOGIC.
FinalDecision(b) ==
  IF file.type = b.type /\ b.size >= file.size THEN AsBlob(file) ELSE b

\* smartOptimizedCompress returns; compressSimple, convertToWebP and
\* convertToAVIF hand its value on unchanged.
Finalize(b) ==
  /\ settled' = "resolved"
  /\ resultBlob' = FinalDecision(b)
  /\ pending' = pending - 1
  /\ pc' = "returned"

NeedsPass2(b) == b.size > Pass2Ceiling \/ (isMobilePhoto /\ b.size > file.size)

\* NeedsPass3 measured against the source instead of the 100KB ceiling.
NeedsPass3BySource(b) == b.size >= file.size

NeedsPass3(b) == b.size > Pass3Ceiling

Pass2Quality(b) == IF b.type = AVIF THEN 30 ELSE 50

Pass3Quality(b) == IF b.type = AVIF THEN 25 ELSE 45

\* PngTrap that watches WebP requests only.
PngTrapWebPOnly(b) == targetType = WEBP /\ b.type = PNG

PngTrap(b) == targetType \in {WEBP, AVIF} /\ b.type = PNG

\* AfterPass1 that starts Pass 2 and Pass 3 together instead of awaiting
\* Pass 2 first.
AfterPass1Parallel(b) ==
  /\ blob' = b
  /\ held' = <<b.size>>
  /\ IF NeedsPass2(b)
       THEN /\ retryType' = b.type
            /\ passes' = passes \o <<Options(Pass2Quality(b), b.type, Pass2Width),
                                     Options(Pass3Quality(b), b.type, Pass3Width)>>
            /\ pending' = (pending - 1) + 2
            /\ pc' = "pass2"
            /\ UNCHANGED <<settled, resultBlob>>
       ELSE /\ Finalize(b)
            /\ UNCHANGED <<retryType, passes>>

\* AfterPass1 that retries in the format the caller asked for.
AfterPass1KeepTarget(b) ==
  /\ blob' = b
  /\ held' = <<b.size>>
  /\ IF NeedsPass2(b)
       THEN /\ retryType' = targetType
            /\ passes' = Append(passes, Options(Pass2Quality(b), targetType, Pass2Width))
            /\ pending' = (pending - 1) + 1
            /\ pc' = "pass2"
            /\ UNCHANGED <<settled, resultBlob>>
       ELSE /\ Finalize(b)
            /\ UNCHANGED <<retryType, passes>>

\* Pass 1 is settled with b (after any JPEG fallback): Pass 2 or the end.
AfterPass1(b) ==
  /\ blob' = b
  /\ held' = <<b.size>>
  /\ IF NeedsPass2(b)
       THEN /\ retryType' = b.type
            /\ passes' = Append(passes, Options(Pass2Quality(b), b.type, Pass2Width))
            /\ pending' = (pending - 1) + 1
            /\ pc' = "pass2"
            /\ UNCHANGED <<settled, resultBlob>>
       ELSE /\ Finalize(b)
            /\ UNCHANGED <<retryType, passes>>

\* Better that adopts a candidate of equal size.
BetterOrEqual(candidate, best) == IF candidate.size <= best.size THEN candidate ELSE best

\* A later pass's candidate is adopted only when strictly smaller.
Better(candidate, best) == IF candidate.size < best.size THEN candidate ELSE best

\* ------------------------------------------------------------------------
\* Actions
\* ------------------------------------------------------------------------
\* App.handleToolChange(tool)
\* AnimationLab is rendered under the ANIMATION tool only: leaving the tool
\* unmounts it and its own state is gone, the frames stay in the App state.
handleToolChange(tool) ==
  /\ ~crashed
  /\ activeTool' = tool
  /\ images' = <<>>
  /\ lab' = IF tool = ANIMATION /\ activeTool = ANIMATION
              THEN lab
              ELSE [lab EXCEPT !.currentIndex = 0, !.isPlaying = FALSE]
  /\ UNCHANGED <<envVars, svg, firstRun, proberUrls, card, modal, isProcessing, crashed,
                 batchVars, i, pc, optVars, iterVars>>

NewImage(f, id) ==
  [id |-> id, originalSize |-> f.size, processedSize |-> f.size, type |-> f.type,
   status |-> "processing", base64 |-> "", seoData |-> NoSeoData, seoCall |-> ""]

\* The synchronous head of processFiles(fs): the busy flag, the closure's
\* tool, the new records.  Whatever the function was waiting for before is
\* no longer followed.
startBatch(fs) ==
  /\ isProcessing' = TRUE
  /\ files' = fs
  /\ batchTool' = activeTool
  /\ images' = [k \in 1..Len(fs) |-> NewImage(fs[k], k)] \o images
  /\ i' = 1
  /\ pc' = "loop"
  /\ file' = NoFile
  /\ settled' = "none"
  /\ resultBlob' = NoBlob
  /\ base64Str' = ""
  /\ targetType' = ""
  /\ isMobilePhoto' = FALSE
  /\ blob' = NoBlob
  /\ retryType' = ""
  /\ passes' = <<>>
  /\ held' = <<>>
  /\ pending' = 0
  /\ UNCHANGED <<envVars, toolVars, activeTool, crashed>>

\* App.processFiles(fs), up to the first iteration of the processing loop.
\* The UploadZone hands over files only while isProcessing is false; the
\* model follows one batch per behaviour.
processFiles(fs) ==
  /\ pc = "idle"
  /\ ~crashed
  /\ ~isProcessing
  /\ files = <<>>
  /\ activeTool \in UploadTools
  /\ startBatch(fs)

\* UploadZone.handleDrop without the isProcessing check.
handleDropUnguarded(fs) ==
  /\ ~crashed
  /\ activeTool \in UploadTools
  /\ images = <<>>
  /\ proberUrls < MaxProbes
  /\ startBatch(fs)

\* UploadZone.handleDrop: files dropped on the zone are handed to
\* processFiles unless isProcessing is true, when the drop is ignored.  The
\* zone is rendered for the tools that take uploads; uploads are followed
\* while the list is empty and fewer than MaxProbes sources have been probed.
handleDrop(fs) ==
  /\ ~crashed
  /\ activeTool \in UploadTools
  /\ images = <<>>
  /\ proberUrls < MaxProbes
  /\ IF isProcessing THEN UNCHANGED vars ELSE startBatch(fs)

\* UploadZone.handleFileInput: the change event of the file input, which
\* is disabled while isProcessing is true; the handler itself checks
\* nothing.
handleFileInput(fs) ==
  /\ ~crashed
  /\ activeTool \in UploadTools
  /\ images = <<>>
  /\ proberUrls < MaxProbes
  /\ ~isProcessing
  /\ startBatch(fs)

\* One iteration of the loop starts (the tool's adapter is called and
\* smartOptimizedCompress awaits getImageDimensions; the SVG tool has no
\* case in the switch), or the loop is over.
LoopStep ==
  /\ pc = "loop"
  /\ IF i > Len(files)
       THEN /\ isProcessing' = (IF crashed THEN isProcessing ELSE FALSE)
            /\ pc' = "idle"
            /\ UNCHANGED <<images, i, crashed, optVars, iterVars>>
       ELSE /\ UNCHANGED isProcessing
            /\ IF batchTool = SVG
                 THEN /\ AfterSwitch(files[i], AsBlob(files[i]), "")
                      /\ UNCHANGED optVars
                 ELSE /\ file' = files[i]
                      /\ resultBlob' = AsBlob(files[i])
                      /\ targetType' = AdapterTarget(batchTool, files[i])
                      /\ pc' = "probe"
                      /\ UNCHANGED <<images, i, crashed, settled, base64Str,
                                     isMobilePhoto, blob, retryType, passes, held,
                                     pending>>
  /\ UNCHANGED <<envVars, toolVars, activeTool, batchVars>>

\* getImageDimensions settles (it never rejects: {0, 0} on a decode error)
\* with the object URL it made for the image element still registered:
\* neither handler revokes it.  The optimizer classifies the source and
\* starts Pass 1.
ProbeDone ==
  /\ pc = "probe"
  /\ LET mobile == IsMobilePhoto(file)
         isAVIF == targetType = AVIF
         startWidth == IF mobile THEN MobileStartWidth ELSE DefaultStartWidth
         startQuality == IF mobile THEN (IF isAVIF THEN 40 ELSE 60)
                                   ELSE (IF isAVIF THEN 50 ELSE 65)
     IN  /\ isMobilePhoto' = mobile
         /\ passes' = <<Options(startQuality, targetType, startWidth)>>
  /\ pending' = pending + 1
  /\ proberUrls' = proberUrls + 1
  /\ pc' = "pass1"
  /\ UNCHANGED <<envVars, svg, firstRun, card, lab, modal, appVars, batchVars, i, targetType, blob, retryType, held,
                 iterVars>>

\* Pass 1 resolves.  A PNG answer to a WebP/AVIF request starts the JPEG
\* re-encode instead of the size checks.
Pass1Done ==
  /\ pc = "pass1"
  /\ Decodable(file)
  /\ \E b \in compressImage(file, passes[Len(passes)]) :
       IF PngTrap(b)
         THEN /\ blob' = b
              /\ passes' = Append(passes, Options(FallbackQuality, JPEG, FallbackWidth))
              /\ pending' = (pending - 1) + 1
              /\ pc' = "fallback"
              /\ UNCHANGED <<retryType, held, settled, resultBlob>>
         ELSE AfterPass1(b)
  /\ UNCHANGED <<envVars, toolVars, appVars, batchVars, i, targetType, isMobilePhoto,
                 file, base64Str>>

\* The JPEG re-encode resolves and stands in for the Pass 1 result.
FallbackDone ==
  /\ pc = "fallback"
  /\ Decodable(file)
  /\ \E b \in compressImage(file, passes[Len(passes)]) : AfterPass1(b)
  /\ UNCHANGED <<envVars, toolVars, appVars, batchVars, i, targetType, isMobilePhoto,
                 file, base64Str>>

\* Pass 2 resolves.
Pass2Done ==
  /\ pc = "pass2"
  /\ Decodable(file)
  /\ \E retryBlob \in compressImage(file, passes[Len(passes)]) :
       LET best == Better(retryBlob, blob) IN
       /\ blob' = best
       /\ held' = Append(held, best.size)
       /\ IF NeedsPass3(best)
            THEN /\ passes' = Append(passes, Options(Pass3Quality(best), retryType, Pass3Width))
                 /\ pending' = (pending - 1) + 1
                 /\ pc' = "pass3"
                 /\ UNCHANGED <<settled, resultBlob>>
            ELSE /\ Finalize(best)
                 /\ UNCHANGED passes
  /\ UNCHANGED <<envVars, toolVars, appVars, batchVars, i, targetType, isMobilePhoto, retryType,
                 file, base64Str>>

\* Pass3Done as a loop: while the best result is above the ceiling, encode
\* at 800px again.
Pass3DoneAgain ==
  /\ pc = "pass3"
  /\ Decodable(file)
  /\ \E pass3Blob \in compressImage(file, passes[Len(passes)]) :
       LET best == Better(pass3Blob, blob) IN
       /\ blob' = best
       /\ held' = Append(held, best.size)
       /\ IF NeedsPass3(best)
            THEN /\ passes' = Append(passes, Options(Pass3Quality(best), retryType, Pass3Width))
                 /\ pending' = (pending - 1) + 1
                 /\ pc' = "pass3"
                 /\ UNCHANGED <<settled, resultBlob>>
            ELSE /\ Finalize(best)
                 /\ UNCHANGED passes
  /\ UNCHANGED <<envVars, toolVars, appVars, batchVars, i, targetType, isMobilePhoto, retryType,
                 file, base64Str>>

\* Pass 3 resolves; nothing follows it but the final decision.
Pass3Done ==
  /\ pc = "pass3"
  /\ Decodable(file)
  /\ \E pass3Blob \in compressImage(file, passes[Len(passes)]) :
       LET best == Better(pass3Blob, blob) IN
       /\ blob' = best
       /\ held' = Append(held, best.size)
       /\ Finalize(best)
  /\ UNCHANGED <<envVars, toolVars, appVars, batchVars, i, targetType, isMobilePhoto, retryType,
                 passes, file, base64Str>>

\* EncodeFails that falls back on the best result so far when a pass after
\* Pass 1 fails.
EncodeFailsKeepsBest ==
  /\ pc \in {"pass1", "fallback", "pass2", "pass3"}
  /\ IF held = <<>>
       THEN settled' = "rejected" /\ UNCHANGED resultBlob
       ELSE settled' = "resolved" /\ resultBlob' = FinalDecision(blob)
  /\ pending' = pending - 1
  /\ pc' = "returned"
  /\ UNCHANGED <<envVars, toolVars, appVars, batchVars, i, targetType, isMobilePhoto, blob,
                 retryType, passes, held, file, base64Str>>

\* A compressImage call rejects (no canvas context, no blob, or a read
\* error): smartOptimizedCompress rejects with it, and so does the adapter.
EncodeFails ==
  /\ pc \in {"pass1", "fallback", "pass2", "pass3"}
  /\ settled' = "rejected"
  /\ pending' = pending - 1
  /\ pc' = "returned"
  /\ UNCHANGED <<envVars, toolVars, appVars, batchVars, i, targetType, isMobilePhoto, blob,
                 retryType, passes, held, file, resultBlob, base64Str>>

\* DecodeError with a watchdog: the stalled image is marked failed and the
\* busy flag is cleared.
DecodeErrorWatchdog ==
  /\ pc \in {"pass1", "fallback", "pass2", "pass3"}
  /\ ~Decodable(file)
  /\ pc' = "hung"
  /\ images' = SetRecord(i, MarkError)
  /\ isProcessing' = FALSE
  /\ UNCHANGED <<envVars, toolVars, activeTool, crashed, batchVars, i, optVars, iterVars>>

\* The image element reports that the source cannot be decoded.
\* compressImage sets no img.onerror, so nothing runs: the reader has
\* already loaded, and the promise stays pending for good.
DecodeError ==
  /\ pc \in {"pass1", "fallback", "pass2", "pass3"}
  /\ ~Decodable(file)
  /\ pc' = "hung"
  /\ UNCHANGED <<envVars, toolVars, appVars, batchVars, i, optVars, iterVars>>

\* The await of the adapter call in processFiles resumes: the catch block on
\* a rejection, else fileToBase64 for the tools that show code, else the
\* rest of the iteration.  The optimizer's locals are gone.
AdapterSettled ==
  /\ pc = "returned"
  /\ targetType' = ""
  /\ isMobilePhoto' = FALSE
  /\ blob' = NoBlob
  /\ retryType' = ""
  /\ passes' = <<>>
  /\ held' = <<>>
  /\ IF settled = "rejected"
       THEN Catch
       ELSE IF batchTool = COMPRESS
              THEN AfterSwitch(file, resultBlob, "")
              ELSE /\ pc' = "b64"
                   /\ UNCHANGED <<images, i, crashed, iterVars>>
  /\ UNCHANGED <<envVars, toolVars, activeTool, isProcessing, batchVars, pending>>

\* The MIME type processFiles declares for the File it reads back.
Base64Label(tool, rb) == IF tool = CONVERT_WEBP THEN WEBP ELSE rb.type

\* fileToBase64 resolves.
Base64Done ==
  /\ pc = "b64"
  /\ AfterSwitch(file, resultBlob, Base64Label(batchTool, resultBlob))
  /\ UNCHANGED <<envVars, toolVars, activeTool, isProcessing, batchVars, optVars>>

\* fileToBase64 rejects (read error).
Base64Fails ==
  /\ pc = "b64"
  /\ Catch
  /\ UNCHANGED <<envVars, toolVars, activeTool, isProcessing, batchVars, optVars>>

\* generateSeoMetadata resolves and the success update follows.
SeoDone ==
  /\ pc = "seo"
  /\ \E call \in SeoCalls :
       Commit(resultBlob, base64Str, generateSeoMetadata(call), call)
  /\ UNCHANGED <<envVars, toolVars, activeTool, isProcessing, batchVars, optVars>>

\* The optimizer's specification: a tool with an upload zone has been
\* selected, one file is uploaded and processed to the end.
Init == \E tool \in UploadTools : Start(tool)

Next ==
  \/ \E fs \in Uploads : processFiles(fs)
  \/ LoopStep
  \/ ProbeDone
  \/ Pass1Done
  \/ FallbackDone
  \/ Pass2Done
  \/ Pass3Done
  \/ EncodeFails
  \/ DecodeError
  \/ AdapterSettled
  \/ Base64Done
  \/ Base64Fails
  \/ SeoDone

Spec == Init /\ [][Next]_vars

\* The same, with every pending platform call and every pending metadata
\* call eventually completing or failing.
SpecLive == Init /\ [][Next]_vars /\ WF_vars(Next)

\* The application's specification: from construction, tool changes at any
\* time and a batch of files.
InitApp == Start(COMPRESS)

NextApp ==
  \/ \E tool \in ToolType : handleToolChange(tool)
  \/ \E fs \in Batches : processFiles(fs)
  \/ LoopStep
  \/ ProbeDone
  \/ Pass1Done
  \/ FallbackDone
  \/ Pass2Done
  \/ Pass3Done
  \/ EncodeFails
  \/ DecodeError
  \/ AdapterSettled
  \/ Base64Done
  \/ Base64Fails
  \/ SeoDone

SpecApp == InitApp /\ [][NextApp]_vars

\* ------------------------------------------------------------------------
\* The Rasterizer/Encoder alone: one compressImage call on a source of any
\* small or typical pixel size, under any small or typical maxWidth.
\* ------------------------------------------------------------------------
\* Largest side and largest maxWidth drawn exhaustively.
MaxSide == 6

\* The widths the optimizer passes as maxWidth.
PassWidths == {DefaultStartWidth, MobileStartWidth, FallbackWidth, Pass2Width, Pass3Width}

ResizeWidths == 1..MaxSide \cup PassWidths

\* Sides around the pass widths, sides of photos, and sides whose scaled
\* counterpart is an exact half (145 * 800 / 1856 = 62.5).
ResizeSides == 1..(2 * MaxSide) \cup {145, 799, 800, 801, 1856, 1921, 3000, 4000}

InitResize ==
  /\ caps = {JPEG, WEBP, AVIF}
  /\ apiKey = FALSE
  /\ activeTool = COMPRESS
  /\ images = <<>>
  /\ isProcessing = FALSE
  /\ files = <<>>
  /\ batchTool = COMPRESS
  /\ i = 0
  /\ pc = "resize"
  /\ \E w \in ResizeSides, h \in ResizeSides : file = MkFile(JPEG, 8 * 1024, <<w, h>>)
  /\ targetType = JPEG
  /\ isMobilePhoto = FALSE
  /\ blob = NoBlob
  /\ retryType = ""
  /\ \E m \in ResizeWidths : passes = <<Options(FallbackQuality, JPEG, m)>>
  /\ held = <<>>
  /\ settled = "none"
  /\ resultBlob = NoBlob
  /\ base64Str = ""
  /\ pending = 1
  /\ crashed = FALSE
  /\ svg = NoSvg
  /\ firstRun = NoBlob
  /\ proberUrls = 0
  /\ card = NoCard
  /\ lab = NewLab
  /\ modal = NewModal

\* compressImage(file, options) resolves.
Rasterize ==
  /\ pc = "resize"
  /\ blob' \in compressImage(file, passes[1])
  /\ pending' = pending - 1
  /\ pc' = "resized"
  /\ UNCHANGED <<envVars, toolVars, appVars, batchVars, i, targetType, isMobilePhoto, retryType,
                 passes, held, iterVars>>

NextResize == Rasterize

SpecResize == InitResize /\ [][NextResize]_vars

\* ------------------------------------------------------------------------
\* generateSVGWrapper(file), called on its own
\* ------------------------------------------------------------------------
SvgFiles == Files \cup {MkFile(SVGXML, 8 * 1024, <<400, 300>>)}

\* Every variable outside the call under study, at rest.
AtRest ==
  /\ caps \in Platforms
  /\ apiKey = FALSE
  /\ activeTool = COMPRESS
  /\ images = <<>>
  /\ isProcessing = FALSE
  /\ files = <<>>
  /\ i = 0
  /\ targetType = ""
  /\ isMobilePhoto = FALSE
  /\ blob = NoBlob
  /\ retryType = ""
  /\ passes = <<>>
  /\ held = <<>>
  /\ settled = "none"
  /\ resultBlob = NoBlob
  /\ base64Str = ""
  /\ pending = 0
  /\ crashed = FALSE
  /\ svg = NoSvg
  /\ firstRun = NoBlob
  /\ proberUrls = 0
  /\ card = NoCard
  /\ lab = NewLab
  /\ modal = NewModal

InitSvg ==
  /\ AtRest
  /\ batchTool = SVG
  /\ pc = "svgCall"
  /\ file \in SvgFiles

\* SvgStart without the SVG branch: every source goes to the optimizer.
SvgStartNoPassthrough ==
  /\ pc = "svgCall"
  /\ pc' = "probe"
  /\ targetType' = file.type
  /\ UNCHANGED <<envVars, toolVars, appVars, batchVars, i, isMobilePhoto, blob, retryType,
                 passes, held, pending, iterVars>>

\* generateSVGWrapper starts: an SVG source is read as text, any other is
\* handed to smartOptimizedCompress(file, file.type).
SvgStart ==
  /\ pc = "svgCall"
  /\ IF file.type = SVGXML
       THEN pc' = "svgText" /\ UNCHANGED targetType
       ELSE pc' = "probe" /\ targetType' = file.type
  /\ UNCHANGED <<envVars, toolVars, appVars, batchVars, i, isMobilePhoto, blob, retryType,
                 passes, held, pending, iterVars>>

\* reader.readAsText settles: the source's own markup, or a rejection.
SvgTextRead ==
  /\ pc = "svgText"
  /\ \/ /\ pc' = "svgDone"
        /\ svg' = [text |-> "source", width |-> file.width, height |-> file.height,
                   payloadWidth |-> file.width, payloadHeight |-> file.height]
     \/ /\ pc' = "svgRejected"
        /\ UNCHANGED svg
  /\ UNCHANGED <<envVars, firstRun, proberUrls, card, lab, modal, appVars, batchVars, i, optVars, iterVars>>

\* The await of smartOptimizedCompress resumes; fileToBase64 is called on
\* the optimized payload, or the rejection is passed on.
SvgCompressed ==
  /\ pc = "returned"
  /\ pc' = IF settled = "rejected" THEN "svgRejected" ELSE "svgB64"
  /\ UNCHANGED <<envVars, toolVars, appVars, batchVars, i, optVars, iterVars>>

\* fileToBase64 settles; the data URI is given to a new image element.
SvgEncoded ==
  /\ pc = "svgB64"
  /\ pc' \in {"svgLoad", "svgRejected"}
  /\ UNCHANGED <<envVars, toolVars, appVars, batchVars, i, optVars, iterVars>>

\* img.onload: the markup is sized by the image element, which has decoded
\* the embedded payload.
SvgLoaded ==
  /\ pc = "svgLoad"
  /\ svg' = [text |-> "wrapper", width |-> resultBlob.width, height |-> resultBlob.height,
             payloadWidth |-> resultBlob.width, payloadHeight |-> resultBlob.height]
  /\ pc' = "svgDone"
  /\ UNCHANGED <<envVars, firstRun, proberUrls, card, lab, modal, appVars, batchVars, i, optVars, iterVars>>

NextSvg ==
  \/ SvgStart
  \/ SvgTextRead
  \/ ProbeDone
  \/ Pass1Done
  \/ FallbackDone
  \/ Pass2Done
  \/ Pass3Done
  \/ EncodeFails
  \/ DecodeError
  \/ SvgCompressed
  \/ SvgEncoded
  \/ SvgLoaded

SpecSvg == InitSvg /\ [][NextSvg]_vars

\* ------------------------------------------------------------------------
\* compressSimple(file), called on its own and then on its own output
\* ------------------------------------------------------------------------
InitTwice ==
  /\ AtRest
  /\ batchTool = COMPRESS
  /\ pc = "compressCall"
  /\ file \in Files

\* compressSimple(file): smartOptimizedCompress(file, file.type).
compressSimple ==
  /\ pc = "compressCall"
  /\ targetType' = file.type
  /\ pc' = "probe"
  /\ UNCHANGED <<envVars, toolVars, appVars, batchVars, i, isMobilePhoto, blob, retryType,
                 passes, held, pending, iterVars>>

\* The first run has resolved: its output, as a File of the output's type,
\* size and pixel size, is the source of the second run.
RunAgain ==
  /\ pc = "returned"
  /\ settled = "resolved"
  /\ firstRun = NoBlob
  /\ firstRun' = resultBlob
  /\ file' = MkFile(resultBlob.type, resultBlob.size, <<resultBlob.width, resultBlob.height>>)
  /\ pc' = "compressCall"
  /\ targetType' = ""
  /\ isMobilePhoto' = FALSE
  /\ blob' = NoBlob
  /\ retryType' = ""
  /\ passes' = <<>>
  /\ held' = <<>>
  /\ settled' = "none"
  /\ resultBlob' = NoBlob
  /\ UNCHANGED <<envVars, svg, proberUrls, card, lab, modal, appVars, batchVars, i, pending, base64Str>>

NextTwice ==
  \/ compressSimple
  \/ ProbeDone
  \/ Pass1Done
  \/ FallbackDone
  \/ Pass2Done
  \/ Pass3Done
  \/ EncodeFails
  \/ DecodeError
  \/ RunAgain

SpecTwice == InitTwice /\ [][NextTwice]_vars

\* ------------------------------------------------------------------------
\* AnimationLab and SettingsModal: the handlers of the page outside the
\* processing loop
\* ------------------------------------------------------------------------
\* Most frames followed.
MaxFrames == 3

UiRest == UNCHANGED <<envVars, svg, firstRun, proberUrls, card, activeTool, images,
                      isProcessing, batchVars, i, pc, optVars, iterVars>>

\* The page is rendered after a state update: the preview reads
\* frames[currentIndex].url whenever there is a frame, which throws when the
\* index has no frame.
PreviewThrows(l) == l.animationFrames > 0 /\ l.currentIndex >= l.animationFrames

\* onAddFrames(files): the files are appended to animationFrames.
onAddFrames(n) ==
  /\ ~crashed
  /\ activeTool = ANIMATION
  /\ lab.animationFrames + n <= MaxFrames
  /\ lab' = [lab EXCEPT !.animationFrames = @ + n]
  /\ crashed' = PreviewThrows(lab')
  /\ UNCHANGED modal
  /\ UiRest

\* onClear: animationFrames becomes empty; AnimationLab keeps its state.
onClear ==
  /\ ~crashed
  /\ activeTool = ANIMATION
  /\ lab' = [lab EXCEPT !.animationFrames = 0]
  /\ UNCHANGED <<crashed, modal>>
  /\ UiRest

\* The play/pause button, shown while there is a frame.
togglePlaying ==
  /\ ~crashed
  /\ activeTool = ANIMATION
  /\ lab.animationFrames > 0
  /\ lab' = [lab EXCEPT !.isPlaying = ~@]
  /\ UNCHANGED <<crashed, modal>>
  /\ UiRest

\* The interval set by the effect fires.
Tick ==
  /\ ~crashed
  /\ activeTool = ANIMATION
  /\ lab.isPlaying
  /\ lab.animationFrames > 0
  /\ lab' = [lab EXCEPT !.currentIndex = (@ + 1) % lab.animationFrames]
  /\ UNCHANGED <<crashed, modal>>
  /\ UiRest

\* Navbar.onOpenSettings
onOpenSettings ==
  /\ ~crashed
  /\ ~modal.isSettingsOpen
  /\ modal' = [modal EXCEPT !.isSettingsOpen = TRUE]
  /\ UNCHANGED <<crashed, lab>>
  /\ UiRest

\* A control of the open modal calls setLocalSettings.
setLocalSettings(v) ==
  /\ ~crashed
  /\ modal.isSettingsOpen
  /\ modal' = [modal EXCEPT !.localSettings = v]
  /\ UNCHANGED <<crashed, lab>>
  /\ UiRest

\* onClose without handleSave (the X button or the backdrop).  The settings
\* prop has not changed, so the effect that copies it to localSettings does
\* not run.
onClose ==
  /\ ~crashed
  /\ modal.isSettingsOpen
  /\ modal' = [modal EXCEPT !.isSettingsOpen = FALSE]
  /\ UNCHANGED <<crashed, lab>>
  /\ UiRest

\* handleSave: onUpdate(localSettings), onClose(); the effect then copies
\* the new settings prop to localSettings.
handleSave ==
  /\ ~crashed
  /\ modal.isSettingsOpen
  /\ modal' = [settings |-> modal.localSettings, isSettingsOpen |-> FALSE,
                localSettings |-> modal.localSettings]
  /\ UNCHANGED <<crashed, lab>>
  /\ UiRest

NextUi ==
  \/ \E tool \in ToolType : handleToolChange(tool)
  \/ \E n \in 1..2 : onAddFrames(n)
  \/ onClear
  \/ togglePlaying
  \/ Tick
  \/ onOpenSettings
  \/ \E v \in SettingsValues : setLocalSettings(v)
  \/ onClose
  \/ handleSave

SpecUi == InitApp /\ [][NextUi]_vars

\* ------------------------------------------------------------------------
\* The upload zone: batches of one file, one after the other
\* ------------------------------------------------------------------------
ZoneBatches == {<<f>> : f \in BatchFiles}

NextZone ==
  \/ \E tool \in ToolType : handleToolChange(tool)
  \/ \E fs \in ZoneBatches : handleDrop(fs)
  \/ \E fs \in ZoneBatches : handleFileInput(fs)
  \/ LoopStep
  \/ ProbeDone
  \/ Pass1Done
  \/ FallbackDone
  \/ Pass2Done
  \/ Pass3Done
  \/ EncodeFails
  \/ DecodeError
  \/ AdapterSettled
  \/ Base64Done
  \/ Base64Fails
  \/ SeoDone

SpecZone == InitApp /\ [][NextZone]_vars

\* ------------------------------------------------------------------------
\* smartOptimizedCompress up to its Pass 1 request, on sources around the
\* classification thresholds
\* ------------------------------------------------------------------------
ProbeDims == {<<400, 300>>, <<1999, 2000>>, <<2000, 1999>>, <<2001, 100>>, <<100, 2001>>,
              <<4000, 3000>>, <<0, 0>>}

ProbeSizes == {8 * 1024, MobileMaxBytes - 1, MobileMaxBytes, MobileMaxBytes + 1}

ProbeFiles == {MkFile(t, sz, d) : t \in {JPEG, AVIF}, sz \in ProbeSizes, d \in ProbeDims}

InitProbe ==
  /\ AtRest
  /\ batchTool \in {COMPRESS, CONVERT_WEBP, CONVERT_AVIF}
  /\ pc = "adapterCall"
  /\ file \in ProbeFiles

\* compressSimple, convertToWebP or convertToAVIF calls
\* smartOptimizedCompress with the target it fixes.
callAdapter ==
  /\ pc = "adapterCall"
  /\ targetType' = AdapterTarget(batchTool, file)
  /\ pc' = "probe"
  /\ UNCHANGED <<envVars, toolVars, appVars, batchVars, i, isMobilePhoto, blob, retryType,
                 passes, held, pending, iterVars>>

NextProbe ==
  \/ callAdapter
  \/ ProbeDone

SpecProbe == InitProbe /\ [][NextProbe]_vars

\* ------------------------------------------------------------------------
\* ResultCard: the download link of one finished record
\* ------------------------------------------------------------------------
\* File names, as the segments originalName.split('.') yields.
CardNames == {<<"photo", "gif">>, <<"photo">>, <<"photo", "">>, <<"my", "photo", "webp">>}

\* The types a finished record can carry under each tool: processFiles has
\* no case for the SVG tool, so the record keeps the type of the uploaded
\* file; under the other tools it carries the type the encoder resolved.
CardTypes(tool) ==
  IF tool = SVG THEN {JPEG, PNG, WEBP, GIF, AVIF, SVGXML} ELSE {JPEG, PNG, WEBP, AVIF}

\* ResultCard.getExtension
getExtension(image, tool) ==
  CASE image.type = WEBP -> "webp"
    [] image.type = AVIF -> "avif"
    [] image.type = JPEG -> "jpg"
    [] image.type = PNG -> "png"
    [] image.type = SVGXML -> "svg"
    [] OTHER ->
         CASE tool = CONVERT_WEBP -> "webp"
           [] tool = CONVERT_AVIF -> "avif"
           [] tool = SVG -> "svg"
           [] OTHER ->
                LET last == image.originalName[Len(image.originalName)]
                IN  IF last = "" THEN "jpg" ELSE last

InitCard ==
  /\ caps = {JPEG, WEBP, AVIF}
  /\ apiKey = FALSE
  /\ activeTool \in UploadTools
  /\ images = <<>>
  /\ isProcessing = FALSE
  /\ files = <<>>
  /\ batchTool = activeTool
  /\ i = 0
  /\ pc = "card"
  /\ file = NoFile
  /\ targetType = ""
  /\ isMobilePhoto = FALSE
  /\ blob = NoBlob
  /\ retryType = ""
  /\ passes = <<>>
  /\ held = <<>>
  /\ settled = "none"
  /\ resultBlob = NoBlob
  /\ base64Str = ""
  /\ pending = 0
  /\ crashed = FALSE
  /\ svg = NoSvg
  /\ firstRun = NoBlob
  /\ proberUrls = 0
  /\ \E name \in CardNames, type \in CardTypes(activeTool) :
       card = [originalName |-> name, type |-> type, status |-> "done", extension |-> ""]
  /\ lab = NewLab
  /\ modal = NewModal

\* The card of a finished record is rendered: the download attribute is
\* built with getExtension().
RenderCard ==
  /\ pc = "card"
  /\ card.status = "done"
  /\ card' = [card EXCEPT !.extension = getExtension(card, activeTool)]
  /\ pc' = "carded"
  /\ UNCHANGED <<envVars, svg, firstRun, proberUrls, lab, modal, appVars, batchVars, i, optVars,
                 iterVars>>

NextCard == RenderCard

SpecCard == InitCard /\ [][NextCard]_vars

\* ========================================================================
\* Claims
\* ========================================================================
\* The adapter call of the current image has resolved and its value is
\* about to be consumed by processFiles.
Returned == pc = "returned" /\ settled = "resolved"

\* The current image goes through compressSimple.
ViaCompressSimple == batchTool \in {COMPRESS, BASE64}

\* C1: never-larger invariant.  Whatever compressSimple returns is no larger
\* than the source, and as large only when it is the source file itself.
C1_NeverLarger ==
  (Returned /\ ViaCompressSimple) =>
     /\ resultBlob.size <= file.size
     /\ (resultBlob.size = file.size => resultBlob.isFile)

\* C2 as stated: on a platform whose encoder answers every request with
\* PNG, convertToAVIF returns WebP or JPEG, never PNG.
C2_AlwaysPngEncoder ==
  (Returned /\ batchTool = CONVERT_AVIF /\ caps = {}) =>
     (resultBlob.type \in {WEBP, JPEG} /\ resultBlob.type # PNG)

\* C2 amended: on a platform whose encoder answers every WebP and AVIF
\* request with PNG but honors JPEG, convertToAVIF returns WebP or JPEG,
\* never PNG.
C2_FallbackDetected ==
  (Returned /\ batchTool = CONVERT_AVIF /\ caps = {JPEG}) =>
     (resultBlob.type \in {WEBP, JPEG} /\ resultBlob.type # PNG)

C2_Witness ==
  /\ Returned /\ batchTool = CONVERT_AVIF /\ caps = {JPEG}
  /\ Len(passes) >= 2 /\ passes[2].type = JPEG
  /\ resultBlob.type = JPEG /\ ~resultBlob.isFile

\* C3: escalation monotonicity.  The size held after Pass 2 is at most the
\* size held after Pass 1, the size held after Pass 3 at most the size held
\* after Pass 2, and the best result is replaced only by a strictly smaller
\* candidate (a tie keeps the earlier blob).
C3_EscalationMonotone ==
  [][(pc \in {"pass2", "pass3"} /\ held' # held) =>
        /\ Len(held') = Len(held) + 1
        /\ held'[Len(held')] <= held[Len(held)]
        /\ held'[Len(held')] = blob'.size
        /\ (blob' # blob => blob'.size < blob.size)]_vars

C3_Witness ==
  /\ pc = "returned" /\ Len(held) = 3
  /\ held[2] < held[1] /\ held[3] = held[2]
  /\ blob.width = Pass2Width

\* Steps left before the optimizer call of the current image is over.
Rank(p) ==
  CASE p = "probe" -> 5
    [] p = "pass1" -> 4
    [] p = "fallback" -> 3
    [] p = "pass2" -> 2
    [] p = "pass3" -> 1
    [] OTHER -> 0

InCall == pc \in {"probe", "pass1", "fallback", "pass2", "pass3"}

\* C4: bounded escalation.  A call hands at most four requests to
\* compressImage (three tiers and one JPEG re-encode, at most one request
\* per tier), Pass 3 is followed by the return only, every step of a call
\* brings it closer to the return, and a call whose encoder can answer is
\* never stuck.
C4_BoundedEscalation ==
  /\ [](/\ Len(passes) <= 4
        /\ Cardinality({k \in DOMAIN passes : passes[k].maxWidth = Pass2Width}) <= 1
        /\ Cardinality({k \in DOMAIN passes : passes[k].maxWidth = Pass3Width}) <= 1
        /\ Cardinality({k \in DOMAIN passes : passes[k].maxWidth = FallbackWidth}) <= 1
        /\ ((InCall /\ pc # "probe" /\ Decodable(file)) =>
               ENABLED (Pass1Done \/ FallbackDone \/ Pass2Done \/ Pass3Done)))
  /\ [][(InCall /\ pc' # pc) => Rank(pc') < Rank(pc)]_vars
  /\ [][(pc = "pass3" /\ pc' # pc) => (pc' = "returned" /\ passes' = passes)]_vars

C4_Witness ==
  /\ Returned /\ Len(passes) = 4 /\ Len(held) = 3
  /\ passes[2].type = JPEG /\ passes[4].maxWidth = Pass3Width

\* C5: same-format finalize.  When the requested format is the source's
\* and the best result is not smaller than the source, the original file is
\* returned.
C5_SameFormatKeepsOriginal ==
  (Returned /\ targetType = file.type /\ blob.size >= file.size) =>
     resultBlob = AsBlob(file)

\* C6: conversion finalize.  When the requested format differs from the
\* source's, the best encode result is returned, never the original file.
C6_ConversionReturnsResult ==
  (Returned /\ targetType # file.type) =>
     (resultBlob = blob /\ ~resultBlob.isFile)

\* C7: convertToAVIF never hands on a PNG that an AVIF run of the optimizer
\* ended with: such a value comes from the WebP re-run only.
C7_PngRetriedAsWebP ==
  (Returned /\ batchTool = CONVERT_AVIF /\ resultBlob.type = PNG) =>
     targetType = WEBP

\* C8: convertToAVIF never surfaces the failure of an AVIF run of the
\* optimizer: a rejection can come from the WebP re-run only.
C8_FailureRetriedAsWebP ==
  (pc = "returned" /\ settled = "rejected" /\ batchTool = CONVERT_AVIF) =>
     targetType = WEBP

\* A step that ends the iteration of image i by a failure.
Fails ==
  /\ pc \in {"returned", "b64", "seo"}
  /\ pc' = "loop"
  /\ \E k \in DOMAIN images : images[k].id = i /\ images'[k].status = "error"

\* C9: a failure is per image.  Only the failing image's record changes and
\* it becomes 'error', no record becomes 'error' otherwise, the loop moves
\* on to the next image, and when the loop is over no image is left
\* 'processing' and isProcessing is false again.
C9_PerImageFailure ==
  /\ [](pc = "idle" /\ files # <<>> =>
          /\ ~isProcessing
          /\ \A k \in DOMAIN images : images[k].status \in {"done", "error"})
  /\ [][Fails =>
          /\ i' = i + 1
          /\ isProcessing' = isProcessing
          /\ DOMAIN images' = DOMAIN images
          /\ \A k \in DOMAIN images :
               IF images[k].id = i
                 THEN images'[k] = [images[k] EXCEPT !.status = "error"]
                 ELSE images'[k] = images[k]]_vars
  /\ [][\A k \in DOMAIN images \cap DOMAIN images' :
          (images'[k].status = "error" /\ images[k].status # "error") =>
             (Fails /\ images[k].id = i)]_vars
  /\ [](pc = "loop" => ENABLED LoopStep)

\* The shorter side of w2 x h2 is within one pixel of the exact
\* proportional value for a w x h source.
AspectKept(w, h, w2, h2) ==
  IF w >= h
    THEN h2 * w - h * w2 <= w /\ h * w2 - h2 * w <= w
    ELSE w2 * h - w * h2 <= h /\ w * h2 - w2 * h <= h

\* C10: resolution cap.  Under maxDimension M > 0 the longer side of the
\* output surface is at most M and the aspect ratio is kept to within one
\* pixel on the shorter side.
C10_ResolutionCap ==
  pc = "resized" =>
     /\ Max(blob.width, blob.height) <= passes[1].maxWidth
     /\ AspectKept(file.width, file.height, blob.width, blob.height)

C10_Witness ==
  /\ pc = "resized"
  /\ file.width = 1856 /\ file.height = 145 /\ passes[1].maxWidth = Pass3Width
  /\ blob.width = Pass3Width /\ blob.height = 62

\* The optimizer is at work on image i of the batch.
Optimizing == pc \in {"probe", "pass1", "fallback", "pass2", "pass3", "hung"}

C12_RunToCompletion ==
  /\ (\E k \in DOMAIN images : images[k].status = "processing")
        ~> (\A k \in DOMAIN images : images[k].status \in {"done", "error"})
  /\ [][(pc \in {"pass1", "fallback", "pass2", "pass3"} /\ pc' # pc) =>
          pc' \in {"fallback", "pass2", "pass3", "returned", "hung"}]_vars

\* C13: decode failure.  When the platform reports that the source cannot be
\* decoded, the pending compressImage call rejects.
C13_DecodeFailureRejects ==
  [][DecodeError => (settled' = "rejected" /\ pending' = pending - 1)]_vars

\* C14: a metadata failure is no error state.  Whatever the metadata call
\* comes to, the image whose optimization succeeded is 'done' once the call
\* is over, and the page is still rendered.
C14_MetadataNeverFails ==
  [][(pc = "seo" /\ pc' # pc) =>
        /\ ~crashed'
        /\ \A k \in DOMAIN images :
              images[k].id = i => images'[k].status = "done"]_vars

\* C15: metadata does not gate the result.  While the metadata call of an
\* image is pending, the image is already 'done' with its processed size
\* and resolved type.
C15_MetadataDoesNotGate ==
  \A k \in DOMAIN images :
     (pc = "seo" /\ images[k].id = i) =>
        /\ images[k].status = "done"
        /\ images[k].processedSize = resultBlob.size
        /\ images[k].type = resultBlob.type

\* C16: metadata fallback value.  For a missing key, a network failure and
\* a malformed response the metadata stored for the image is the local
\* fallback.
C16_FallbackStored ==
  \A k \in DOMAIN images :
     (images[k].status = "done" /\ images[k].seoCall \in {"nokey", "rejects", "malformed"})
        => images[k].seoData = LocalFallback

\* C17: SVG wrapper dimensions.  For a non-SVG source the markup declares
\* the source's native pixel dimensions, and the embedded payload decodes to
\* an image of the declared dimensions.
C17_SvgNativeDimensions ==
  (pc = "svgDone" /\ file.type # SVGXML) =>
     /\ svg.width = file.width /\ svg.height = file.height
     /\ svg.payloadWidth = svg.width /\ svg.payloadHeight = svg.height

\* C18: idempotence of Compress.  The second of two compressSimple runs,
\* fed with the output of the first, returns no more bytes than the first.
C18_CompressIdempotent ==
  (Returned /\ firstRun # NoBlob) => resultBlob.size <= firstRun.size

C18_Witness ==
  /\ Returned /\ firstRun.type = PNG /\ ~firstRun.isFile
  /\ blob.size > firstRun.size
  /\ resultBlob.isFile /\ resultBlob.size = firstRun.size

\* C19: mobile photo to WebP.  For convertToWebP on the 4000x3000 JPEG of
\* 1.8 MB with an encoder that honors WebP: Pass 1 runs at 1280px and
\* quality 0.6, Pass 2 runs at 1024px whenever the Pass 1 result is not
\* smaller than the source, and the result is a WebP strictly smaller than
\* the source.
C19_MobilePhotoToWebP ==
  (/\ batchTool = CONVERT_WEBP /\ WEBP \in caps
   /\ file = MkFile(JPEG, 1887437, <<4000, 3000>>)) =>
     /\ Len(passes) >= 1 => passes[1] = Options(60, WEBP, 1280)
     /\ Len(passes) >= 2 => passes[2].maxWidth = 1024
     /\ (Len(held) >= 1 /\ held[1] >= file.size) => Len(passes) >= 2
     /\ Returned => (resultBlob.type = WEBP /\ resultBlob.size < file.size)

\* C20: dimension prober.  The probe of getImageDimensions is always
\* followed by the Pass 1 request, never by a failure, and for a source
\* probed as 0 x 0 the request carries the non-mobile parameters.
C20_ProberNeverFails ==
  [][(pc = "probe" /\ pc' # pc) =>
        /\ pc' = "pass1" /\ settled' = settled /\ pending' = pending + 1
        /\ (file.width = 0 /\ file.height = 0) =>
              /\ ~isMobilePhoto'
              /\ passes' = <<Options(IF targetType = AVIF THEN 50 ELSE 65,
                                      targetType, DefaultStartWidth)>>]_vars

C20_Witness ==
  /\ pc = "pass1" /\ file.width = 0 /\ file.height = 0 /\ file.type # ""
  /\ targetType = AVIF /\ ~isMobilePhoto
  /\ passes = <<Options(50, AVIF, DefaultStartWidth)>>


\* C21 (SVG passthrough): a generateSVGWrapper call on an image/svg+xml
\* source never enters the Smart Optimizer (no probe, no classification, no
\* target type) and never calls the Rasterizer/Encoder (no EncodeRequest, no
\* pending compressImage promise, no encoded blob); when it resolves, it
\* resolves with the text of the source file itself.
C21_SvgPassthrough ==
  file.type = SVGXML =>
    /\ pc \in {"svgCall", "svgText", "svgDone", "svgRejected"}
    /\ passes = <<>> /\ pending = 0 /\ proberUrls = 0
    /\ targetType = "" /\ blob = NoBlob /\ resultBlob = NoBlob
    /\ (pc = "svgDone" => svg.text = "source")

C21_Witness == file.type = SVGXML /\ pc = "svgDone" /\ svg.text = "source"

\* The extension a file name carries after its last dot, "" when it has none.
OwnExtension(name) == IF Len(name) >= 2 THEN name[Len(name)] ELSE ""

Requests(width) == {k \in 2..Len(passes) : passes[k].maxWidth = width}

FallbackFired == Requests(FallbackWidth) # {}

Pass2Ran == Requests(Pass2Width) # {}

Pass3Ran == Requests(Pass3Width) # {}

\* C23 (Pass1 to Pass2): once Pass 1 is settled (after any fallback
\* re-encode), Pass 2 is requested if and only if the size held is at least
\* the source size, or the request is same-format and the size held is above
\* 0.9 times the source size.
C23_Pass2Transition ==
  Len(held) >= 1 =>
    (Pass2Ran <=> \/ held[1] >= file.size
                  \/ (targetType = file.type /\ 10 * held[1] > 9 * file.size))

\* C24 (Pass2 to Pass3): Pass 3 is requested only after Pass 2 has run and
\* settled, and once Pass 2 is settled it is requested if and only if the
\* best size held is still above the 100KB ceiling (the target-driven
\* variant, which is the one Version 2.1 implements).
C24_Pass3Transition ==
  /\ Pass3Ran => (Pass2Ran /\ Len(held) >= 2)
  /\ Len(held) >= 2 => (Pass3Ran <=> held[2] > 100 * 1024)
  /\ (Len(held) = 1 /\ ~Pass2Ran) => ~Pass3Ran

C24_Witness ==
  /\ pc = "pass3" /\ Pass2Ran /\ Pass3Ran /\ held[2] > 100 * 1024 /\ held[2] < file.size

\* C25 (capability-fallback guard): the re-encode that follows a PNG answer
\* to a WebP/AVIF request is the second and only extra request, asks for
\* image/jpeg at quality 0.7 and keeps the maxDimension of Pass 1.
C25_FallbackKeepsDimension ==
  pc = "fallback" =>
    /\ Len(passes) = 2
    /\ passes[2].type = JPEG
    /\ passes[2].quality = 70
    /\ passes[2].maxWidth = passes[1].maxWidth

\* C26 (next-gen format abandoned): once the fallback guard has fired, no
\* later request of the call asks for image/webp or image/avif, and Pass 2
\* and Pass 3 ask for the type the fallback encode resolved to (JPEG where
\* the platform encodes it, PNG otherwise).
C26_NextGenAbandoned ==
  FallbackFired =>
    /\ \A k \in 2..Len(passes) : passes[k].type \notin {WEBP, AVIF}
    /\ \A k \in Requests(Pass2Width) \cup Requests(Pass3Width) :
         passes[k].type = (IF JPEG \in caps THEN JPEG ELSE PNG)

C26_Witness ==
  /\ FallbackFired /\ Pass2Ran /\ Pass3Ran /\ targetType \in {WEBP, AVIF}
  /\ passes[Len(passes)].type = JPEG

\* C27 (strictly increasing aggressiveness): Pass 2's quality and
\* maxDimension are both strictly lower than Pass 1's, and Pass 3's both
\* strictly lower than Pass 2's, with or without the JPEG fallback.
C27_StrictlyMoreAggressive ==
  /\ \A k \in Requests(Pass2Width) :
       passes[k].quality < passes[1].quality /\ passes[k].maxWidth < passes[1].maxWidth
  /\ \A k \in Requests(Pass3Width) : \A j \in Requests(Pass2Width) :
       passes[k].quality < passes[j].quality /\ passes[k].maxWidth < passes[j].maxWidth

C29_Round(short, M, long) == (2 * short * M + long) \div (2 * long)

\* C29 (proportional downscale): when maxDimension M > 0 and a source side
\* exceeds M, the longer output side equals M and the shorter one equals
\* round(oldShort * M / oldLong); otherwise the output keeps the native
\* dimensions.
C29_ProportionalDownscale ==
  pc = "resized" =>
    LET w == file.width
        h == file.height
        M == passes[1].maxWidth
    IN  IF M > 0 /\ (w > M \/ h > M)
          THEN IF w > h
                 THEN blob.width = M /\ blob.height = C29_Round(h, M, w)
                 ELSE blob.height = M /\ blob.width = C29_Round(w, M, h)
          ELSE blob.width = w /\ blob.height = h

\* C30 (no leaked prober handles): once getImageDimensions has settled, no
\* object URL it created is still registered.
C30_NoLeakedProberHandles == pc # "probe" => proberUrls = 0

\* C31 (no timeout): once a platform decode has stalled, the call stays
\* stalled for good; the record of that image, as long as it is listed, stays
\* 'processing', and isProcessing stays true.
C31_NoTimeout ==
  /\ [](pc = "hung" =>
         /\ isProcessing
         /\ \A k \in DOMAIN images : images[k].id = i => images[k].status = "processing")
  /\ [][pc = "hung" => pc' = "hung"]_vars

C31_Witness ==
  /\ pc = "hung" /\ isProcessing /\ i = 2
  /\ \E k \in DOMAIN images : images[k].id = i /\ images[k].status = "processing"
  /\ \E k \in DOMAIN images : images[k].status = "done"

\* The requests of the call that compressImage has answered with a blob:
\* the PNG answer that set off the fallback, and one per size held.
Answered == Len(held) + (IF FallbackFired THEN 1 ELSE 0)

\* C32 (failure aborts the escalation): an optimizer call resolves only when
\* every request it made was answered; when a request fails the call is
\* rejected with exactly that one request unanswered (it was the last one
\* made), nothing is pending, no encoded blob is handed to the caller, and
\* the record of the image becomes 'error'.
C32_FailureAborts ==
  /\ [](pc = "returned" =>
         IF settled = "resolved"
           THEN Answered = Len(passes)
           ELSE /\ settled = "rejected"
                /\ Answered = Len(passes) - 1
                /\ pending = 0
                /\ (resultBlob = NoBlob \/ resultBlob.isFile))
  /\ [][(pc = "returned" /\ settled = "rejected") =>
          \A k \in DOMAIN images : images[k].id = i => images'[k].status = "error"]_vars

C32_Witness ==
  /\ pc = "returned" /\ settled = "rejected" /\ Len(held) = 2 /\ Len(passes) = 3
  /\ held[2] < file.size

\* C33 (tool switch during a batch): once the list has been emptied while
\* a batch is in flight, it stays empty for the rest of that batch: no
\* completion or failure of an image of the batch inserts or updates a
\* record.
C33_ToolSwitchClearsBatch ==
  [][(isProcessing /\ files # <<>> /\ images = <<>>) => images' = <<>>]_vars

C33_Witness ==
  /\ isProcessing /\ images = <<>> /\ Len(files) = 2
  /\ pc = "loop" /\ i = 2 /\ activeTool # batchTool

\* A step that starts a batch: the loop is entered at its first image.
BatchStarts == pc' = "loop" /\ i' = 1 /\ ~(pc = "loop" /\ i = 1)

\* C34 (single batch in flight): a batch starts only while isProcessing is
\* false, isProcessing is true for as long as a batch is in flight, and so a
\* batch starts only when none is in flight, whatever drops, file
\* selections and tool changes come in between.
C34_SingleBatch ==
  /\ [](pc # "idle" => isProcessing)
  /\ [][BatchStarts => (~isProcessing /\ pc = "idle")]_vars

C34_Witness ==
  /\ pc = "loop" /\ i = 1 /\ isProcessing /\ proberUrls >= 1

\* C35 (data-URI type label): the data URI stored with a finished record
\* declares the MIME type of the blob the record resolved to.
C35_DataUriLabel ==
  \A k \in DOMAIN images :
    (images[k].status = "done" /\ images[k].base64 # "") =>
       images[k].base64 = images[k].type

\* C36 (non-degenerate surface): under each maxDimension the passes use, a
\* source with both sides at least 1 is rendered to a canvas with both sides
\* at least 1.
C36_NonDegenerateSurface ==
  (/\ pc = "resized"
   /\ passes[1].maxWidth \in {1920, 1280, 1024, 960, 800}
   /\ file.width >= 1 /\ file.height >= 1) =>
     (blob.width >= 1 /\ blob.height >= 1)

\* C37 (animation preview index in range): whenever there is a frame, the
\* previewed index refers to one.
C37_PreviewIndexInRange ==
  lab.animationFrames > 0 => lab.currentIndex < lab.animationFrames

\* C38 (settings draft discarded on cancel): whenever the settings modal is
\* opened, the draft it shows equals the current app settings; closing
\* without Save leaves the app settings as they are.
C38_DraftDiscarded ==
  /\ [][(~modal.isSettingsOpen /\ modal'.isSettingsOpen) =>
          modal'.localSettings = modal'.settings]_vars
  /\ [][(modal.isSettingsOpen /\ ~modal'.isSettingsOpen /\ modal'.settings # modal.settings) =>
          modal'.settings = modal.localSettings]_vars
====
